---- MODULE Spec2Model ----
(***************************************************************************)
(* scholar-link: resumable streaming claim extraction.                     *)
(*                                                                         *)
(* One job id is modelled.  The Job Store record, the Claim Buffer, the    *)
(* Verification Store and the blob store are the shared state; every       *)
(* stream call (PaperService.stream_claims, which delegates to             *)
(* make_live_stream) is a process that takes one step per repository call  *)
(* (an await on the store) together with the events it yields before the   *)
(* next repository call.  Page extraction tasks (make_live_stream._one_page)*)
(* run independently of the generator that consumes them.                  *)
(***************************************************************************)
EXTENDS Integers, Sequences, FiniteSets, TLC

\* ------------------------------------------------------------- bounds
MaxStreams == 2      \* stream calls that may overlap
MaxCalls == 3        \* stream calls made on the job id, one after the other
MaxPages == 2        \* pages of the uploaded document
MaxFaults == 1       \* store calls that raise
MaxExtractFails == 1 \* extraction calls that raise
MaxVerifies == 1     \* verify calls

Streams == 1..MaxStreams
StoreNames == {"job", "buffer", "verif", "blob"}

\* settings.EXTRACT_CONCURRENCY values tried (the default is 4; the values
\* below and above the page count are the ones that matter for the pool)
ConcValues == {1, 2}

\* ------------------------------------------------------------- data
\* What extract_claims_from_page returns for page p of the document: page 1
\* carries two claims, page 2 one claim, later pages none.  Ids are the
\* synthesized p<page>_<ordinal> ids, written 10*page + ordinal.
PageClaims(p) ==
    IF p = 1 THEN << [id |-> 11, status |-> "cited"], [id |-> 12, status |-> "uncited"] >>
    ELSE IF p = 2 THEN << [id |-> 21, status |-> "weakly_cited"] >>
    ELSE << >>

ClaimIds == {11, 12, 21}
VerifyIds == {11}

NoJob == [status |-> "", phase |-> "none", progress_processed |-> 0,
          progress_total |-> 0, processed |-> 0, total |-> 0]

NoBlob == [kind |-> "none", pages |-> 0]
Blobs == {[kind |-> "empty", pages |-> 0]} \cup
         {[kind |-> "pdf", pages |-> n] : n \in 0..MaxPages}

NoRec == [verdict |-> "none", confidence |-> "-", reasoningMd |-> "-", evidence |-> << >>]
Records == { [verdict |-> "supported", confidence |-> "0.9", reasoningMd |-> "r1",
              evidence |-> << "e1" >>],
             [verdict |-> "unsupported", confidence |-> "0.5", reasoningMd |-> "r2",
              evidence |-> << >>] }

NoSnap == [phase |-> "none", processed |-> 0, total |-> 0]

\* ------------------------------------------------------------- events
NoClaim == [id |-> 0, status |-> "-", verdict |-> "-", confidence |-> "-",
            reasoningMd |-> "-", sourceUploaded |-> FALSE, evidence |-> << >>]

\* payload = TRUE when the event object has a "payload" key
ErrorEv == [type |-> "error", phase |-> "-", processed |-> 0, total |-> 0,
            claim |-> NoClaim, payload |-> TRUE]
DoneEv(hasPayload) ==
    [type |-> "done", phase |-> "-", processed |-> 0, total |-> 0,
     claim |-> NoClaim, payload |-> hasPayload]
ProgressEv(phase, processed, total) ==
    [type |-> "progress", phase |-> phase, processed |-> processed, total |-> total,
     claim |-> NoClaim, payload |-> TRUE]
ClaimEv(c) ==
    [type |-> "claim", phase |-> "-", processed |-> 0, total |-> 0,
     claim |-> c, payload |-> TRUE]

\* ------------------------------------------------------------- state
VARIABLES
    job,        \* Job Store record of the job id (NoJob: no record)
    buffer,     \* Claim Buffer of the job: the Redis list, in RPUSH order
    verif,      \* Verification Store: claim id -> record (NoRec: none)
    blob,       \* blob store entry of the job
    conc,       \* settings.EXTRACT_CONCURRENCY
    pc,         \* position of every stream call
    loc,        \* local variables of every stream call
    task,       \* per stream, per page: state of the _one_page task
    doneq,      \* per stream: pages in the order their results were awaited
    events,     \* per stream: the events yielded so far
    touched,    \* per stream: stores it has written or whose expiry it refreshed
    appended,   \* per stream: ids it appended to the Buffer, in order
    faults,     \* store calls that raised so far
    xfails,     \* extraction calls that raised so far
    nverify,    \* verify calls so far
    calls,      \* stream calls made so far
    prev,       \* what the stream call before the present one emitted
    fx,         \* a call of one of the pure functions: its input and result
    upload,     \* how the upload call ended: "none" (not made), "returned", "raised"
    rds         \* config.cache: the module's _client and the calls on it

vars == << job, buffer, verif, blob, conc, pc, loc, task, doneq, events,
           touched, appended, faults, xfails, nverify, calls, prev, fx, upload, rds >>

stores == << job, buffer, verif, blob >>

Loc0 == [ jobStatus |-> "", status |-> "", snap |-> NoSnap, buffered |-> << >>,
          idx |-> 0, skip |-> {}, pages |-> 0, i |-> 0, fin |-> 0,
          cur |-> << >>, ci |-> 0, liveFrom |-> 0, known |-> FALSE,
          b0 |-> << >>, faulted |-> FALSE, xfailed |-> FALSE, cutAt |-> "" ]

\* Summary of an ended stream call: whether it ran to its done event on the
\* finished path, where a disconnect cut it off (if one did), the events it
\* emitted (claim events by their ids) and the Buffer as it stood when the
\* call read it.
NoPrev == [finished |-> FALSE, cutAt |-> "", evs |-> << >>, b0 |-> << >>]

MaxCallers == 2      \* coroutines that call get_redis
MaxHandles == 2      \* connection handles made by from_url

Callers == 1..MaxCallers

\* What a caller of get_redis holds: the handle it made and is pinging
\* (mine), the handle returned to it and whether that handle's ping had
\* completed successfully when it was returned.  0: no handle (None).
NoHandle == [mine |-> 0, handle |-> 0, ready |-> FALSE]

\* config.cache before the first get_redis: _client is None (0), no handle
\* has been made, pinged or closed, no call is under way.
NoRds == [client |-> 0, made |-> 0, pinged |-> {}, closing |-> FALSE, closes |-> 0,
          pc |-> [c \in Callers |-> "idle"],
          got |-> [c \in Callers |-> NoHandle]]

\* The state before the upload, for a configured concurrency drawn from C.
InitFor(C) ==
    /\ job = NoJob
    /\ buffer = << >>
    /\ verif = [c \in ClaimIds |-> NoRec]
    /\ blob = NoBlob
    /\ conc \in C
    /\ pc = [s \in Streams |-> "init"]
    /\ loc = [s \in Streams |-> Loc0]
    /\ task = [s \in Streams |-> [p \in 1..MaxPages |-> "none"]]
    /\ doneq = [s \in Streams |-> << >>]
    /\ events = [s \in Streams |-> << >>]
    /\ touched = [s \in Streams |-> {}]
    /\ appended = [s \in Streams |-> << >>]
    /\ faults = 0
    /\ xfails = 0
    /\ nverify = 0
    /\ calls = 0
    /\ prev = NoPrev
    /\ upload = "none"
    /\ rds = NoRds

\* No function call is followed.
NoFx == [op |-> "none", done |-> TRUE]

Init == InitFor(ConcValues) /\ fx = NoFx

\* A call either returns (TRUE) or raises (FALSE); at most MaxFaults store
\* calls and MaxExtractFails extraction calls raise.
StoreOutcomes == IF faults < MaxFaults THEN {TRUE, FALSE} ELSE {TRUE}
ExtractOutcomes == IF xfails < MaxExtractFails THEN {TRUE, FALSE} ELSE {TRUE}
Count(ok) == IF ok THEN faults ELSE faults + 1

Ended(s) == pc[s] \in {"closed", "disconnected"}


Emit(s, evs) == events' = [events EXCEPT ![s] = @ \o evs]
Touch(s, names) == touched' = [touched EXCEPT ![s] = @ \cup names]

\* ------------------------------------------------------------- upload
\* JobRepository.create / put: a record with the initial status and no
\* snapshot fields.
NewJob == [status |-> "streaming", phase |-> "none", progress_processed |-> 0,
           progress_total |-> 0, processed |-> 0, total |-> 0]

\* (mutant) the id is returned whatever happened
UploadResultAlways(upto) == "returned"

\* Lines 40-51: an exception of a store call leaves create_job_for_file (the
\* handlers re-raise); "return job.id" is reached when all three returned.
UploadResult(upto) == IF upto = 3 THEN "returned" ELSE "raised"

\* PaperService.create_job_for_file: jobs.create, buffer.clear, blobs.put_pdf
\* in this order; upto is the number of those calls that returned before one
\* raised (3: none raised).  The job id is a fresh uuid, so the call is made
\* once for the modelled id.
CreateJobForFile(b, upto) ==
    /\ job = NoJob
    /\ upto = 3 \/ faults < MaxFaults
    /\ job' = IF upto >= 1 THEN NewJob ELSE job
    /\ buffer' = IF upto >= 2 THEN << >> ELSE buffer
    /\ blob' = IF upto >= 3 THEN b ELSE blob
    /\ faults' = IF upto = 3 THEN faults ELSE faults + 1
    /\ upload' = UploadResult(upto)
    /\ UNCHANGED << verif, conc, pc, loc, task, doneq, events, touched, appended,
                    xfails, nverify, calls, prev, fx, rds >>

\* ------------------------------------------------------------- stream_claims
\* The claim events of a stream, as the sequence of their ids.
RECURSIVE ClaimIdsOf(_)
ClaimIdsOf(evs) ==
    IF evs = << >> THEN << >>
    ELSE IF Head(evs).type = "claim" THEN << Head(evs).claim.id >> \o ClaimIdsOf(Tail(evs))
    ELSE ClaimIdsOf(Tail(evs))

\* (mutant) the comparison misses the stored lower-case status
IsFinishedWrongCase(status) == status = "FINISHED"

\* Line 123: (status or "").lower() == "finished"
IsFinished(status) == status = "finished"

\* An event without the verification overlay: its type, its progress
\* fields and its claim id.
Plain(ev) == [type |-> ev.type, phase |-> ev.phase, processed |-> ev.processed,
              total |-> ev.total, id |-> ev.claim.id]
PlainEvents(evs) == [k \in 1..Len(evs) |-> Plain(evs[k])]

Summary(s) ==
    IF pc[s] = "closed" /\ loc[s].known /\ loc[s].status = "finished"
    THEN [finished |-> TRUE, cutAt |-> "", evs |-> PlainEvents(events[s]),
          b0 |-> loc[s].b0]
    ELSE [NoPrev EXCEPT !.cutAt = loc[s].cutAt]

\* (mutant) the error event is left out
UnknownJobEventsNoError == << DoneEv(TRUE) >>

\* Lines 69-76: the stream of an unknown job id
UnknownJobEvents == << ErrorEv, DoneEv(TRUE) >>

\* A stream call starts (lines 62-76).  JobRepository.get gives None for a
\* missing record, and a call that raises is turned into None by
\* stream_claims: then the stream is the error event and the done event.
\* The call takes the place of an ended one, of which only the summary is
\* kept.
JobsGet(s, ok) ==
    /\ pc[s] \in {"init", "closed", "disconnected"}
    /\ calls < MaxCalls
    /\ calls' = calls + 1
    /\ prev' = IF pc[s] = "init" THEN prev ELSE Summary(s)
    /\ faults' = Count(ok)
    /\ task' = [task EXCEPT ![s] = [p \in 1..MaxPages |-> "none"]]
    /\ doneq' = [doneq EXCEPT ![s] = << >>]
    /\ touched' = [touched EXCEPT ![s] = {}]
    /\ appended' = [appended EXCEPT ![s] = << >>]
    /\ IF ok /\ job # NoJob
       THEN /\ pc' = [pc EXCEPT ![s] = "get_status"]
            /\ loc' = [loc EXCEPT ![s] = [Loc0 EXCEPT !.jobStatus = job.status,
                           !.known = TRUE]]
            /\ events' = [events EXCEPT ![s] = << >>]
       ELSE /\ pc' = [pc EXCEPT ![s] = "closed"]
            /\ loc' = [loc EXCEPT ![s] = [Loc0 EXCEPT !.faulted = ~ok]]
            /\ events' = [events EXCEPT ![s] = UnknownJobEvents]
    /\ UNCHANGED << stores, conc, xfails, nverify, fx, upload, rds >>

\* JobRepository.get_status (line 80): "status = get_status() or job.status";
\* when the call raises the stream keeps job.status and has no snapshot.
GetStatus(s, ok) ==
    /\ pc[s] = "get_status"
    /\ faults' = Count(ok)
    /\ IF ok
       THEN /\ pc' = [pc EXCEPT ![s] = "get_snap"]
            /\ loc' = [loc EXCEPT ![s] = [@ EXCEPT
                           !.status = IF job.status # "" THEN job.status ELSE loc[s].jobStatus]]
       ELSE /\ pc' = [pc EXCEPT ![s] = "read_buffer"]
            /\ loc' = [loc EXCEPT ![s] = [@ EXCEPT !.status = loc[s].jobStatus,
                           !.snap = NoSnap, !.faulted = TRUE]]
    /\ UNCHANGED << stores, conc, task, doneq, events, touched, appended, xfails, nverify, calls, prev >>

\* (mutant) no snapshot is ever found
SnapshotOfNothing(j) == NoSnap

\* JobRepository.get_progress_snapshot: None when the record has no phase.
SnapshotOf(j) ==
    IF j.phase = "none" THEN NoSnap
    ELSE [phase |-> j.phase, processed |-> j.progress_processed,
          total |-> j.progress_total]

\* Lines 81-97: read the snapshot and emit it when its total is positive.
GetProgressSnapshot(s, ok) ==
    /\ pc[s] = "get_snap"
    /\ faults' = Count(ok)
    /\ pc' = [pc EXCEPT ![s] = "read_buffer"]
    /\ IF ok
       THEN LET snap == SnapshotOf(job) IN
            /\ loc' = [loc EXCEPT ![s] = [@ EXCEPT !.snap = snap]]
            /\ IF snap.phase # "none" /\ snap.total > 0
               THEN Emit(s, << ProgressEv(snap.phase, snap.processed, snap.total) >>)
               ELSE UNCHANGED events
       ELSE /\ loc' = [loc EXCEPT ![s] = [@ EXCEPT !.status = loc[s].jobStatus,
                           !.snap = NoSnap, !.faulted = TRUE]]
            /\ UNCHANGED events
    /\ UNCHANGED << stores, conc, task, doneq, touched, appended, xfails, nverify, calls, prev >>

\* (mutant) LRANGE 1 -1: the first entry is left out
BufferReadFromSecond(buf) == SubSeq(buf, 2, Len(buf))

\* ClaimBufferRepository.all: LRANGE 0 -1, the whole list in order.
BufferRead(buf) == SubSeq(buf, 1, Len(buf))

\* Lines 99-104: the Buffer is read (its expiry refreshed); a call that
\* raises gives the empty list.
BufferAll(s, ok) ==
    /\ pc[s] = "read_buffer"
    /\ faults' = Count(ok)
    /\ LET buffered == IF ok THEN BufferRead(buffer) ELSE << >> IN
       /\ loc' = [loc EXCEPT ![s] = [@ EXCEPT !.buffered = buffered, !.idx = 1,
                      !.b0 = buffer, !.faulted = @ \/ ~ok]]
       /\ pc' = [pc EXCEPT ![s] = IF buffered # << >> THEN "replay" ELSE "fetch_pdf"]
    /\ IF ok THEN Touch(s, {"buffer"}) ELSE UNCHANGED touched
    /\ UNCHANGED << stores, conc, task, doneq, events, appended, xfails, nverify, calls, prev >>

\* (mutant) the sourceUploaded flag is not set
stream_merge_saved_no_flag(merged, saved) ==
    [merged EXCEPT !.verdict = saved.verdict,
                   !.confidence = saved.confidence,
                   !.reasoningMd = saved.reasoningMd,
                   !.evidence = IF saved.evidence # << >> THEN saved.evidence ELSE @]

\* util.functions.stream_merge_saved
stream_merge_saved(merged, saved) ==
    [merged EXCEPT !.verdict = saved.verdict,
                   !.confidence = saved.confidence,
                   !.reasoningMd = saved.reasoningMd,
                   !.sourceUploaded = TRUE,
                   !.evidence = IF saved.evidence # << >> THEN saved.evidence ELSE @]

\* c.model_dump(exclude_none=True) of a stored Claim: the verdict, confidence,
\* reasoning and evidence keys are absent.
ReplayPayload(c) ==
    [id |-> c.id, status |-> c.status, verdict |-> "absent", confidence |-> "absent",
     reasoningMd |-> "absent", sourceUploaded |-> FALSE, evidence |-> << >>]

\* Overlay of the persisted record, if any, on a payload.
Overlay(payload, saved) ==
    IF saved # NoRec THEN stream_merge_saved(payload, saved) ELSE payload

\* Lines 109-120: one buffered entry: buffer.touch, verifications.get (which
\* refreshes the record's expiry), the claim event.  If a call raises the
\* entry's event is left out and the loop goes on.
ReplayEntry(s, ok) ==
    /\ pc[s] = "replay"
    /\ faults' = Count(ok)
    /\ LET c == loc[s].buffered[loc[s].idx] IN
       IF ok
       THEN /\ Emit(s, << ClaimEv(Overlay(ReplayPayload(c), verif[c.id])) >>)
            /\ Touch(s, {"buffer"} \cup IF verif[c.id] # NoRec THEN {"verif"} ELSE {})
       ELSE UNCHANGED << events, touched >>
    /\ loc' = [loc EXCEPT ![s] = [@ EXCEPT !.idx = @ + 1, !.faulted = @ \/ ~ok]]
    /\ pc' = [pc EXCEPT ![s] =
                 IF loc[s].idx >= Len(loc[s].buffered) THEN "fetch_pdf" ELSE "replay"]
    /\ UNCHANGED << stores, conc, task, doneq, appended, xfails, nverify, calls, prev >>

\* (mutant) one id is skipped whatever was read
BufferedIdsAndOne(buffered) == {buffered[k].id : k \in 1..Len(buffered)} \cup {12}

\* (mutant) the skip set is left empty
BufferedIdsNone(buffered) == {}

\* Line 152: the ids of the replayed entries
BufferedIds(buffered) == {buffered[k].id : k \in 1..Len(buffered)}

\* (mutant) parse progress is never asked for
EmitParseFlagNever(snap) == FALSE

\* (mutant) parse progress is always asked for
EmitParseFlagAlways(snap) == TRUE

\* Line 153
EmitParseFlag(snap) == ~(snap.phase # "none" /\ snap.phase = "extract")

\* (mutant) a document without pages is taken as one page
PagesOfAtLeastOne(b) == IF b.kind = "pdf" /\ b.pages > 0 THEN b.pages ELSE 1

\* Lines 128-149: the pages extract_pages_texts gives for what get_pdf
\* returned: none for a missing entry, for empty bytes and for bytes PyMuPDF
\* cannot open.
PagesOf(b) == IF b.kind = "pdf" THEN b.pages ELSE 0

\* Lines 122-160: the finished short-circuit; otherwise blobs.get_pdf and
\* extract_pages_texts, done on a missing or empty blob or on zero pages,
\* else the skip set and emit_parse and the start of make_live_stream.
FetchPdf(s, ok) ==
    /\ pc[s] = "fetch_pdf"
    /\ IF IsFinished(loc[s].status)
       THEN /\ ok
            /\ pc' = [pc EXCEPT ![s] = "closed"]
            /\ Emit(s, << DoneEv(TRUE) >>)
            /\ loc' = [loc EXCEPT ![s] = @]
            /\ UNCHANGED faults
       ELSE /\ faults' = Count(ok)
            /\ IF ok /\ PagesOf(blob) > 0
               THEN /\ pc' = [pc EXCEPT ![s] =
                          IF EmitParseFlag(loc[s].snap) THEN "parse" ELSE "spawn"]
                    /\ loc' = [loc EXCEPT ![s] = [@ EXCEPT !.pages = PagesOf(blob),
                                   !.skip = BufferedIds(loc[s].buffered),
                                   !.liveFrom = Len(events[s]) + 1, !.i = 0]]
                    /\ UNCHANGED events
               ELSE /\ pc' = [pc EXCEPT ![s] = "closed"]
                    /\ loc' = [loc EXCEPT ![s] = [@ EXCEPT !.faulted = @ \/ ~ok]]
                    /\ Emit(s, << DoneEv(TRUE) >>)
    /\ UNCHANGED << stores, conc, task, doneq, touched, appended, xfails, nverify, calls, prev >>


\* ------------------------------------------------------------- make_live_stream
\* (mutant) the handler ends the stream without the done event
RaiseSilently(s) ==
    /\ pc' = [pc EXCEPT ![s] = "closed"]
    /\ UNCHANGED events

\* An exception raised inside make_live_stream ends it; stream_claims (lines
\* 177-180) catches it and yields a done event with an empty payload.
Raise(s) ==
    /\ pc' = [pc EXCEPT ![s] = "closed"]
    /\ Emit(s, << DoneEv(TRUE) >>)

\* (mutant) processed is stored one too high
save_phase_progress_plus_one(j, phase, processed, total) ==
    [j EXCEPT !.phase = phase, !.progress_processed = processed + 1,
              !.progress_total = total, !.processed = processed + 1, !.total = total]

\* JobRepository.save_phase_progress: overwrite the snapshot fields and mirror
\* processed/total.
save_phase_progress(j, phase, processed, total) ==
    [j EXCEPT !.phase = phase, !.progress_processed = processed,
              !.progress_total = total, !.processed = processed, !.total = total]

\* (mutant) the status written is failed
set_status_failed(j, status) == [j EXCEPT !.status = "failed"]

\* (mutant) the status is not written
set_status_dropped(j, status) == j

\* JobRepository.set_status
set_status(j, status) == [j EXCEPT !.status = status]

\* Lines 86-91: one step i of the parse progress 0..N: persist, then emit.
EmitParse(s, ok) ==
    /\ pc[s] = "parse"
    /\ faults' = Count(ok)
    /\ IF ok
       THEN /\ job' = save_phase_progress(job, "parse", loc[s].i, loc[s].pages)
            /\ Emit(s, << ProgressEv("parse", loc[s].i, loc[s].pages) >>)
            /\ Touch(s, {"job"})
            /\ pc' = [pc EXCEPT ![s] = IF loc[s].i >= loc[s].pages THEN "spawn" ELSE "parse"]
            /\ loc' = [loc EXCEPT ![s] = [@ EXCEPT !.i = @ + 1]]
       ELSE /\ Raise(s)
            /\ loc' = [loc EXCEPT ![s] = [@ EXCEPT !.faulted = TRUE]]
            /\ UNCHANGED << job, touched >>
    /\ UNCHANGED << buffer, verif, blob, conc, task, doneq, appended, xfails, nverify, calls, prev >>

\* (mutant) the permit count is not clamped to 1
PermitsUnclamped(c) == c

\* Line 94: Semaphore(max(1, extract_concurrency))
Permits(c) == IF c >= 1 THEN c ELSE 1

InFlight(s) == {p \in 1..MaxPages : task[s][p] = "inflight"}
Min(S) == CHOOSE x \in S : \A y \in S : x <= y

\* Lines 93-123: one task per page is created; they start in creation order
\* and the first Permits(conc) of them acquire the semaphore and make their
\* extraction call, the others wait on it.
SpawnTasks(s) ==
    /\ pc[s] = "spawn"
    /\ task' = [task EXCEPT ![s] = [p \in 1..MaxPages |->
                    IF p > loc[s].pages THEN "none"
                    ELSE IF p <= Permits(conc) THEN "inflight" ELSE "queued"]]
    /\ pc' = [pc EXCEPT ![s] = "await_fut"]
    /\ loc' = [loc EXCEPT ![s] = [@ EXCEPT !.fin = 0]]
    /\ UNCHANGED << stores, conc, doneq, events, touched, appended, faults, xfails, nverify, calls, prev, fx, upload, rds >>

\* (mutant) the permit is not handed to the waiting task
TaskReturnNoRelease(t, p, ok) ==
    [q \in 1..MaxPages |-> IF q = p THEN (IF ok THEN "ok" ELSE "err") ELSE t[q]]

\* _one_page, lines 97-120: the extraction call of page p returns (ok) or
\* raises; leaving "async with sem" releases the permit, which the
\* longest-waiting task takes.  The result is the task state of the stream.
TaskReturn(t, p, ok) ==
    [q \in 1..MaxPages |->
        IF q = p THEN (IF ok THEN "ok" ELSE "err")
        ELSE IF {r \in 1..MaxPages : t[r] = "queued"} # {}
                /\ q = Min({r \in 1..MaxPages : t[r] = "queued"}) THEN "inflight"
        ELSE t[q]]

\* The tasks are not cancelled when the generator ends (a disconnect, an
\* exception, the finished path): their calls still return.  While the
\* generator runs, a return is observed only at its next await on
\* as_completed, which is where AwaitFut lets it happen.
CallReturn(s, p, ok) ==
    /\ Ended(s)
    /\ task[s][p] = "inflight"
    /\ xfails' = IF ok THEN xfails ELSE xfails + 1
    /\ task' = [task EXCEPT ![s] = TaskReturn(@, p, ok)]
    /\ UNCHANGED << stores, conc, pc, loc, doneq, events, touched, appended, faults,
                    nverify, calls, prev, fx, upload, rds >>

\* The dicts _one_page builds from the extractor's records (lines 107-119):
\* c.get("id") or p<pn>_<len(out)+1>, c.get("status") or "uncited".
OnePageDicts(p, claims) ==
    [k \in 1..Len(claims) |->
        [id |-> IF claims[k].id # 0 THEN claims[k].id ELSE 10 * p + k,
         status |-> IF claims[k].status # "" THEN claims[k].status
                    ELSE "uncited"]]

\* The dicts of page p of the modelled document.
OnePage(p) == OnePageDicts(p, PageClaims(p))

\* (mutant) the skip set is not consulted
NextUnskippedAll(cur, k, skip) == IF k > Len(cur) THEN Len(cur) + 1 ELSE k

\* Lines 131-133: the next claim of the page, from position k on, whose id is
\* not in the skip set (Len + 1 when there is none).
RECURSIVE NextUnskipped(_, _, _)
NextUnskipped(cur, k, skip) ==
    IF k > Len(cur) THEN Len(cur) + 1
    ELSE IF cur[k].id \in skip THEN NextUnskipped(cur, k + 1, skip)
    ELSE k

\* Lines 127-129: the next task to complete, page p, is awaited: if its call
\* raised (res = FALSE) the exception propagates; else jobs.touch and the
\* loop over its claims starts.
AwaitFut(s, p, res, ok) ==
    /\ pc[s] = "await_fut"
    /\ task[s][p] = "inflight"
    /\ doneq' = [doneq EXCEPT ![s] = Append(@, p)]
    /\ IF ~res
       THEN /\ ok
            /\ xfails' = xfails + 1
            /\ task' = [task EXCEPT ![s] = TaskReturn(@, p, FALSE)]
            /\ Raise(s)
            /\ loc' = [loc EXCEPT ![s] = [@ EXCEPT !.xfailed = TRUE]]
            /\ UNCHANGED << touched, faults >>
       ELSE /\ faults' = Count(ok)
            /\ UNCHANGED xfails
            /\ task' = [task EXCEPT ![s] = TaskReturn(@, p, TRUE)]
            /\ IF ok
               THEN LET cur == OnePage(p)
                        k == NextUnskipped(cur, 1, loc[s].skip) IN
                    /\ loc' = [loc EXCEPT ![s] = [@ EXCEPT !.cur = cur, !.ci = k]]
                    /\ pc' = [pc EXCEPT ![s] =
                                 IF k > Len(cur) THEN "progress" ELSE "append"]
                    /\ Touch(s, {"job"})
                    /\ UNCHANGED events
               ELSE /\ Raise(s)
                    /\ loc' = [loc EXCEPT ![s] = [@ EXCEPT !.faulted = TRUE]]
                    /\ UNCHANGED touched
    /\ UNCHANGED << stores, conc, appended, nverify, calls, prev >>

\* model.claim.ClaimStatus: Claim(**cdict) raises on any other status.
ClaimStatuses == {"cited", "uncited", "weakly_cited"}

\* What ClaimBufferRepository.append stores and ClaimBufferRepository.all
\* reads back for a claim dict.
StoredClaim(c) == [id |-> c.id, status |-> c.status]

\* (mutant) LPUSH: the entry is put at the head
BufferPushHead(buf, entry) == << entry >> \o buf

\* (mutant) nothing is pushed
BufferPushNothing(buf, entry) == buf

\* ClaimBufferRepository.append: RPUSH at the tail
BufferPush(buf, entry) == Append(buf, entry)

\* Line 134: buffer.append(job_id, Claim(**cdict))
BufferAppend(s, ok) ==
    /\ pc[s] = "append"
    /\ LET c == loc[s].cur[loc[s].ci] IN
       IF c.status \notin ClaimStatuses
       THEN /\ ok
            /\ Raise(s)
            /\ UNCHANGED << buffer, touched, appended, faults, loc >>
       ELSE /\ faults' = Count(ok)
            /\ IF ok
               THEN /\ buffer' = BufferPush(buffer, StoredClaim(c))
                    /\ appended' = [appended EXCEPT ![s] = Append(@, c.id)]
                    /\ Touch(s, {"buffer"})
                    /\ pc' = [pc EXCEPT ![s] = "emit_claim"]
                    /\ UNCHANGED << events, loc >>
               ELSE /\ Raise(s)
                    /\ loc' = [loc EXCEPT ![s] = [@ EXCEPT !.faulted = TRUE]]
                    /\ UNCHANGED << buffer, touched, appended >>
    /\ UNCHANGED << job, verif, blob, conc, task, doneq, xfails, nverify, calls, prev >>

\* dict(cdict) of line 135: verdict and confidence are None, sourceUploaded
\* False, no reasoning and no evidence key.
LivePayload(c) ==
    [id |-> c.id, status |-> c.status, verdict |-> "null", confidence |-> "null",
     reasoningMd |-> "absent", sourceUploaded |-> FALSE, evidence |-> << >>]

\* Lines 135-136: _merge_verification, then the claim event.
EmitClaim(s, ok) ==
    /\ pc[s] = "emit_claim"
    /\ faults' = Count(ok)
    /\ LET c == loc[s].cur[loc[s].ci]
           k == NextUnskipped(loc[s].cur, loc[s].ci + 1, loc[s].skip) IN
       IF ok
       THEN /\ Emit(s, << ClaimEv(Overlay(LivePayload(c), verif[c.id])) >>)
            /\ IF verif[c.id] # NoRec THEN Touch(s, {"verif"}) ELSE UNCHANGED touched
            /\ loc' = [loc EXCEPT ![s] = [@ EXCEPT !.ci = k]]
            /\ pc' = [pc EXCEPT ![s] =
                         IF k > Len(loc[s].cur) THEN "progress" ELSE "append"]
       ELSE /\ Raise(s)
            /\ loc' = [loc EXCEPT ![s] = [@ EXCEPT !.faulted = TRUE]]
            /\ UNCHANGED touched
    /\ UNCHANGED << stores, conc, task, doneq, appended, xfails, nverify, calls, prev >>

\* Lines 138-145: finished_pages += 1, persist and emit the extract progress.
EmitExtractProgress(s, ok) ==
    /\ pc[s] = "progress"
    /\ faults' = Count(ok)
    /\ IF ok
       THEN /\ job' = save_phase_progress(job, "extract", loc[s].fin + 1, loc[s].pages)
            /\ Emit(s, << ProgressEv("extract", loc[s].fin + 1, loc[s].pages) >>)
            /\ Touch(s, {"job"})
            /\ loc' = [loc EXCEPT ![s] = [@ EXCEPT !.fin = @ + 1]]
            /\ pc' = [pc EXCEPT ![s] =
                         IF loc[s].fin + 1 >= loc[s].pages THEN "final" ELSE "await_fut"]
       ELSE /\ Raise(s)
            /\ loc' = [loc EXCEPT ![s] = [@ EXCEPT !.faulted = TRUE]]
            /\ UNCHANGED << job, touched >>
    /\ UNCHANGED << buffer, verif, blob, conc, task, doneq, appended, xfails, nverify, calls, prev >>

\* Lines 147-150: the final snapshot.
FinalSnapshot(s, ok) ==
    /\ pc[s] = "final"
    /\ faults' = Count(ok)
    /\ IF ok
       THEN /\ job' = save_phase_progress(job, "extract", loc[s].pages, loc[s].pages)
            /\ Touch(s, {"job"})
            /\ pc' = [pc EXCEPT ![s] = "set_status"]
            /\ UNCHANGED << events, loc >>
       ELSE /\ Raise(s)
            /\ loc' = [loc EXCEPT ![s] = [@ EXCEPT !.faulted = TRUE]]
            /\ UNCHANGED << job, touched >>
    /\ UNCHANGED << buffer, verif, blob, conc, task, doneq, appended, xfails, nverify, calls, prev >>

\* Line 153: the terminal event of make_live_stream
LiveDone == DoneEv(FALSE)

\* Lines 151-153: status finished, then the terminal done.
SetStatusFinished(s, ok) ==
    /\ pc[s] = "set_status"
    /\ faults' = Count(ok)
    /\ pc' = [pc EXCEPT ![s] = "closed"]
    /\ IF ok
       THEN /\ job' = set_status(job, "finished")
            /\ Touch(s, {"job"})
            /\ Emit(s, << LiveDone >>)
            /\ loc' = [loc EXCEPT ![s] = @]
       ELSE /\ Emit(s, << DoneEv(TRUE) >>)
            /\ loc' = [loc EXCEPT ![s] = [@ EXCEPT !.faulted = TRUE]]
            /\ UNCHANGED << job, touched >>
    /\ UNCHANGED << buffer, verif, blob, conc, task, doneq, appended, xfails, nverify, calls, prev >>

\* The client goes away: the generator is closed where it stands and takes
\* no further step; the tasks it created are not cancelled.
Disconnect(s) ==
    /\ pc[s] \notin {"init", "closed", "disconnected"}
    /\ pc' = [pc EXCEPT ![s] = "disconnected"]
    /\ loc' = [loc EXCEPT ![s] = [@ EXCEPT !.cutAt =
                   IF pc[s] = "emit_claim" THEN "emit_claim" ELSE "elsewhere"]]
    /\ UNCHANGED << stores, conc, task, doneq, events, touched, appended,
                    faults, xfails, nverify, calls, prev, fx, upload, rds >>

\* ------------------------------------------------------------- verify
\* (mutant) the record is written under every key
VerificationSetAll(v, c, rec) == [k \in DOMAIN v |-> rec]

\* VerificationRepository.set: SET of the key of (job, data.claimId).
VerificationSet(v, c, rec) == [v EXCEPT ![c] = rec]

\* PaperService.verify_claim: the pipeline's result is persisted under
\* (job, claim) by VerificationRepository.set (last write wins); if a call
\* raises before that, nothing is written.
VerifyClaim(c, rec, ok) ==
    /\ nverify < MaxVerifies
    /\ nverify' = nverify + 1
    /\ faults' = Count(ok)
    /\ verif' = IF ok THEN VerificationSet(verif, c, rec) ELSE verif
    /\ UNCHANGED << job, buffer, blob, conc, pc, loc, task, doneq, events, touched,
                    appended, xfails, calls, prev, fx, upload, rds >>

\* ------------------------------------------------------------- system
StreamStep(s, O, X) ==
    \E ok \in O :
        /\ UNCHANGED << fx, upload, rds >>
        /\ \/ GetStatus(s, ok)
           \/ GetProgressSnapshot(s, ok)
           \/ BufferAll(s, ok)
           \/ ReplayEntry(s, ok)
           \/ FetchPdf(s, ok)
           \/ EmitParse(s, ok)
           \/ \E p \in 1..MaxPages, res \in X : AwaitFut(s, p, res, ok)
           \/ BufferAppend(s, ok)
           \/ EmitClaim(s, ok)
           \/ EmitExtractProgress(s, ok)
           \/ FinalSnapshot(s, ok)
           \/ SetStatusFinished(s, ok)

\* O: the outcomes a store call may have, X: those an extraction call may
\* have (TRUE: it returns, FALSE: it raises).
Rest(O, X) ==
    \/ \E b \in Blobs, upto \in 0..3 :
          /\ upto = 3 \/ FALSE \in O
          /\ CreateJobForFile(b, upto)
    \/ \E s \in Streams : StreamStep(s, O, X)
    \/ \E s \in Streams : SpawnTasks(s)
    \/ \E s \in Streams, p \in 1..MaxPages, ok \in X : CallReturn(s, p, ok)
    \/ \E s \in Streams : Disconnect(s)

\* Stream calls made one after the other: a call is made when the one before
\* it has ended (by its done event or by a disconnect); verify calls are
\* made at any time; store calls and extraction calls may raise.
Next ==
    \/ \E ok \in StoreOutcomes : JobsGet(1, ok)
    \/ \E c \in VerifyIds, rec \in Records, ok \in StoreOutcomes : VerifyClaim(c, rec, ok)
    \/ Rest(StoreOutcomes, ExtractOutcomes)

Spec == Init /\ [][Next]_vars

\* The same with a store that answers every call: only extraction calls may
\* raise.
ReliableNext ==
    \/ JobsGet(1, TRUE)
    \/ \E c \in VerifyIds, rec \in Records : VerifyClaim(c, rec, TRUE)
    \/ Rest({TRUE}, ExtractOutcomes)

ReliableSpec == Init /\ [][ReliableNext]_vars

\* Stream calls that overlap: every call is made once, at any time after the
\* calls numbered before it.  No call raises.
ConcNext ==
    \/ \E s \in Streams :
          /\ pc[s] = "init"
          /\ \A t \in Streams : t < s => pc[t] # "init"
          /\ JobsGet(s, TRUE)
    \/ Rest({TRUE}, {TRUE})

ConcSpec == Init /\ [][ConcNext]_vars

\* The same as Spec for a client that keeps reading (no disconnect), with
\* every store call and every extraction call eventually returning or
\* raising: the generator's next step and the tasks' returns are not put off
\* for ever.
LiveNext ==
    \/ \E ok \in StoreOutcomes : JobsGet(1, ok)
    \/ \E b \in Blobs, upto \in 0..3 :
          /\ upto = 3 \/ FALSE \in StoreOutcomes
          /\ CreateJobForFile(b, upto)
    \/ \E s \in Streams : StreamStep(s, StoreOutcomes, ExtractOutcomes)
    \/ \E s \in Streams : SpawnTasks(s)
    \/ \E s \in Streams, p \in 1..MaxPages, ok \in ExtractOutcomes : CallReturn(s, p, ok)

LiveSpec ==
    /\ Init
    /\ [][LiveNext]_vars
    /\ \A s \in Streams :
          WF_vars(StreamStep(s, StoreOutcomes, ExtractOutcomes) \/ SpawnTasks(s))

\* BlobRepository.put_pdf stores the bytes with an expiry that no stream
\* refreshes: the entry may be gone while the Job record and the Buffer,
\* whose expiry the streams refresh, are still there.
BlobExpire ==
    /\ blob # NoBlob
    /\ blob' = NoBlob
    /\ UNCHANGED << job, buffer, verif, conc, pc, loc, task, doneq, events, touched,
                    appended, faults, xfails, nverify, calls, prev, fx, upload, rds >>

ExpiryNext == ReliableNext \/ BlobExpire

ExpirySpec == Init /\ [][ExpiryNext]_vars

\* ------------------------------------------------------------- extraction records
MaxLines == 2        \* lines of the model's answer for one page

\* A line of the model's answer.  kind: "json" a JSON object, "malformed"
\* text json.loads rejects (or JSON that is no object), "blank", "fence" a
\* line starting with three backticks.  text: "" when the object has no text
\* or an empty one.  id: 0 when the object has no id or a blank one; 12 is
\* the id p1_2 given by the model itself, 77 another id.  status: "" when
\* missing.
LineIds == {0, 12, 77}
LineStatuses == {"", "cited", "weakly_cited", "maybe"}
Lines ==
    {[kind |-> k, text |-> "", id |-> 0, status |-> ""] :
        k \in {"malformed", "blank", "fence"}}
    \cup {[kind |-> "json", text |-> t, id |-> i, status |-> st] :
             t \in {"", "t"}, i \in LineIds, st \in LineStatuses}

Answers == UNION {[1..n -> Lines] : n \in 0..MaxLines}

\* anthropic_client._parse_ndjson: blank and fence lines and lines that fail
\* to parse are dropped, records without text are dropped; id is the stripped
\* id or "", status the stripped status or "uncited".
RECURSIVE ParseNdjson(_)
ParseNdjson(lines) ==
    IF lines = << >> THEN << >>
    ELSE LET l == Head(lines) IN
         (IF l.kind = "json" /\ l.text # ""
          THEN << [id |-> l.id, text |-> l.text,
                   status |-> IF l.status # "" THEN l.status ELSE "uncited"] >>
          ELSE << >>) \o ParseNdjson(Tail(lines))

\* extract_claims_from_page, lines 96-107: the accepted records, numbered
\* from 1, with id = c["id"] or p<page>_<i> and status = status or "uncited".
ExtractClaimsFromPage(p, lines) ==
    LET claims == ParseNdjson(lines) IN
    [i \in 1..Len(claims) |->
        [id |-> IF claims[i].id # 0 THEN claims[i].id ELSE 10 * p + i,
         status |-> IF claims[i].status # "" THEN claims[i].status ELSE "uncited"]]

\* One page is extracted: the records extract_claims_from_page returns for
\* the answer and the dicts _one_page makes of them.
ExtractPage ==
    /\ fx.op = "extract" /\ ~fx.done
    /\ fx' = [fx EXCEPT !.done = TRUE,
                        !.ready = ExtractClaimsFromPage(fx.page, fx.lines),
                        !.dicts = OnePageDicts(fx.page,
                                      ExtractClaimsFromPage(fx.page, fx.lines))]
    /\ UNCHANGED << job, buffer, verif, blob, conc, pc, loc, task, doneq, events,
                    touched, appended, faults, xfails, nverify, calls, prev,
                    upload, rds >>

ExtractInputs ==
    {[op |-> "extract", done |-> FALSE, page |-> p, lines |-> a,
      ready |-> << >>, dicts |-> << >>] : p \in 1..MaxPages, a \in Answers}

\* ------------------------------------------------------------------- retrieval
MaxRows == 3         \* rows of an embedding index
MaxK == 4            \* the k asked of top_k

\* Embedding vectors, with integer coordinates so that the dot product is exact.
Vectors == {<< 1, 0 >>, << 0, 1 >>, << 1, 1 >>}

Dot(a, b) == a[1] * b[1] + a[2] * b[2]

\* sims = index.embeddings @ q (line 53).  Rows are numbered from 1 here.
Sims(index, q) == [i \in 1..Len(index) |-> Dot(index[i], q)]

\* kk = max(1, min(k, n)) (line 54).
Clamp(k, n) ==
    LET m == IF k < n THEN k ELSE n IN IF m > 1 THEN m ELSE 1

\* np.argpartition(sims, -kk)[-kk:] (line 55): kk distinct rows none of which
\* scores less than a row left out.  numpy leaves their order, and the choice
\* among rows that tie at the cut, undefined: every such sequence is possible.
ArgPartitionTops(sims, kk) ==
    {t \in [1..kk -> 1..Len(sims)] :
        /\ \A i, j \in 1..kk : i # j => t[i] # t[j]
        /\ \A r \in 1..Len(sims) :
              (\A j \in 1..kk : t[j] # r) => \A j \in 1..kk : sims[r] <= sims[t[j]]}

\* sorted(..., key=score, reverse=True) (lines 56-60): a stable sort, so rows
\* of equal score stay in the order argpartition gave them.
RECURSIVE SortDesc(_, _)
SortDesc(top, sims) ==
    IF top = << >> THEN << >>
    ELSE LET m == CHOOSE x \in {sims[top[i]] : i \in 1..Len(top)} :
                      \A i \in 1..Len(top) : sims[top[i]] <= x
             IsMax(r) == sims[r] = m
             IsLess(r) == sims[r] < m
             first == SelectSeq(top, IsMax)
         IN [i \in 1..Len(first) |-> [pos |-> first[i], score |-> m]]
            \o SortDesc(SelectSeq(top, IsLess), sims)

\* The results top_k may return for the scores sims and the requested k.
TopKOf(sims, k) ==
    {SortDesc(t, sims) : t \in ArgPartitionTops(sims, Clamp(k, Len(sims)))}

TopK ==
    /\ fx.op = "top_k" /\ ~fx.done
    /\ \E out \in TopKOf(Sims(fx.index, fx.q), fx.k) :
          fx' = [fx EXCEPT !.done = TRUE, !.out = out]
    /\ UNCHANGED << job, buffer, verif, blob, conc, pc, loc, task, doneq, events,
                    touched, appended, faults, xfails, nverify, calls, prev,
                    upload, rds >>

TopKInputs ==
    {[op |-> "top_k", done |-> FALSE, index |-> ix, q |-> q, k |-> k, out |-> << >>] :
        ix \in UNION {[1..n -> Vectors] : n \in 1..MaxRows},
        q \in Vectors, k \in 0..MaxK}

\* -------------------------------------------------------------------- verifier
\* The text of the model's answer, a sequence of pieces.  t: "tick" a backtick,
\* "json" the four letters json, "nl" white space, "object" a JSON object,
\* "number", "string", "array", "null" JSON of another type, "garbage" text
\* that is not JSON.  An object carries its verdict, confidence and
\* reasoningMd as written ("absent" when the key is missing).
Mark(t) == [t |-> t, verdict |-> "", conf |-> "", reason |-> ""]

ObjectVerdicts ==
    {"absent", "supported", "Partially_Supported", "unsupported", "maybe", "null"}
ObjectConfs == {"absent", "-0.2", "0.3", "1.5", "abc"}
ObjectReasons == {"absent", "r"}

Bodies ==
    {[t |-> "object", verdict |-> v, conf |-> c, reason |-> r] :
        v \in ObjectVerdicts, c \in ObjectConfs, r \in ObjectReasons}
    \cup {Mark(t) : t \in {"number", "string", "array", "null", "garbage"}}

Fence == << Mark("tick"), Mark("tick"), Mark("tick") >>

Texts ==
    {<< >>, Fence \o Fence}
    \cup {<< b >> : b \in Bodies}
    \cup {<< Mark("nl"), b, Mark("nl") >> : b \in Bodies}
    \cup {Fence \o << Mark("nl"), b, Mark("nl") >> \o Fence : b \in Bodies}
    \cup {Fence \o << Mark("json"), Mark("nl"), b, Mark("nl") >> \o Fence : b \in Bodies}

\* str.strip: the pieces of the kinds in chars are removed from both ends.
RECURSIVE LStrip(_, _)
LStrip(raw, chars) ==
    IF raw # << >> /\ Head(raw).t \in chars THEN LStrip(Tail(raw), chars) ELSE raw

RECURSIVE RStrip(_, _)
RStrip(raw, chars) ==
    IF raw # << >> /\ raw[Len(raw)].t \in chars
    THEN RStrip(SubSeq(raw, 1, Len(raw) - 1), chars) ELSE raw

Strip(raw, chars) == RStrip(LStrip(raw, chars), chars)

\* Lines 64-68: the stripped text, with a fence and a leading json removed.
Unfenced(text) ==
    LET raw == Strip(text, {"nl"}) IN
    IF Len(raw) >= 3 /\ \A i \in 1..3 : raw[i].t = "tick"
    THEN LET inner == Strip(raw, {"tick"}) IN
         IF inner # << >> /\ Head(inner).t = "json"
         THEN Strip(Tail(inner), {"nl"}) ELSE inner
    ELSE raw

\* json.loads accepts one JSON value with white space around it.
JsonParses(raw) ==
    LET body == Strip(raw, {"nl"}) IN
    Len(body) = 1 /\ body[1].t \in {"object", "number", "string", "array", "null"}

\* Lines 70-77: the parsed value, or the default dict when json.loads raises.
JsonLoads(raw) ==
    IF JsonParses(raw) THEN Strip(raw, {"nl"})[1]
    ELSE [t |-> "object", verdict |-> "unsupported", conf |-> "0.5",
          reason |-> "Unable to parse verifier output."]

\* Lines 79-81: str(verdict).lower(), coerced to unsupported when unknown.
VerdictOf(parsed) ==
    LET lower == IF parsed.verdict = "Partially_Supported" THEN "partially_supported"
                 ELSE IF parsed.verdict = "absent" THEN "unsupported"
                 ELSE IF parsed.verdict = "null" THEN "none"
                 ELSE parsed.verdict
    IN IF lower \in {"supported", "partially_supported", "unsupported"}
       THEN lower ELSE "unsupported"

\* Lines 83-86 and 93: float(confidence), 0.5 when the key is missing or float
\* raises, clamped to [0, 1].  Confidences are in hundredths.
ConfidenceOf(parsed) ==
    LET conf == CASE parsed.conf = "-0.2" -> 0 - 20
                  [] parsed.conf = "0.3" -> 30
                  [] parsed.conf = "1.5" -> 150
                  [] OTHER -> 50
        lo == IF conf < 100 THEN conf ELSE 100
    IN IF lo > 0 THEN lo ELSE 0

\* Line 88.
ReasoningOf(parsed) == IF parsed.reason = "absent" THEN "" ELSE parsed.reason

VerifierRaised == [raised |-> TRUE, verdict |-> "", confidence |-> 0, reasoning |-> ""]

\* anthropic_verify: raise_for_status raises on a failed call (line 48);
\* parsed.get raises AttributeError, which nothing catches, when the parsed
\* JSON is not an object (line 79).
AnthropicVerify(http, text) ==
    IF http # "ok" THEN VerifierRaised
    ELSE LET parsed == JsonLoads(Unfenced(text)) IN
         IF parsed.t # "object" THEN VerifierRaised
         ELSE [raised |-> FALSE, verdict |-> VerdictOf(parsed),
               confidence |-> ConfidenceOf(parsed), reasoning |-> ReasoningOf(parsed)]

Verify ==
    /\ fx.op = "verify" /\ ~fx.done
    /\ fx' = [fx EXCEPT !.done = TRUE, !.out = AnthropicVerify(fx.http, fx.text)]
    /\ UNCHANGED << job, buffer, verif, blob, conc, pc, loc, task, doneq, events,
                    touched, appended, faults, xfails, nverify, calls, prev,
                    upload, rds >>

VerifyInputs ==
    {[op |-> "verify", done |-> FALSE, http |-> h, text |-> t, out |-> VerifierRaised] :
        h \in {"ok", "error"}, t \in Texts}

\* ---------------------------------------------------------- verification pipeline
DefaultK == 4

\* A source document: whether its bytes parse, and the number of chunks each
\* of its pages splits into.
Docs ==
    {[parsable |-> FALSE, pages |-> << 1 >>],
     [parsable |-> TRUE, pages |-> << >>],
     [parsable |-> TRUE, pages |-> << 0 >>],
     [parsable |-> TRUE, pages |-> << 0, 0 >>],
     [parsable |-> TRUE, pages |-> << 1 >>],
     [parsable |-> TRUE, pages |-> << 0, 2 >>],
     [parsable |-> TRUE, pages |-> << 1, 2 >>],
     [parsable |-> TRUE, pages |-> << 2, 3 >>]}

Placeholder == [page |-> 1, paragraph |-> 0, text |-> ""]

\* extract_pages_texts returns [] when the bytes do not parse (lines 28-31).
PagesTexts(doc) == IF doc.parsable THEN doc.pages ELSE << >>

\* Lines 63-70: the chunks of the pages from page pg on, paragraph from 1.
RECURSIVE ChunksFrom(_, _)
ChunksFrom(pages, pg) ==
    IF pg > Len(pages) THEN << >>
    ELSE [j \in 1..pages[pg] |-> [page |-> pg, paragraph |-> j, text |-> "t"]]
         \o ChunksFrom(pages, pg + 1)

\* extract_pdf_chunks: the placeholder for no pages (line 62) or no chunks
\* (line 72).
ExtractPdfChunks(doc) ==
    IF PagesTexts(doc) = << >> THEN << Placeholder >>
    ELSE IF ChunksFrom(PagesTexts(doc), 1) = << >> THEN << Placeholder >>
    ELSE ChunksFrom(PagesTexts(doc), 1)

HasText(ch) == ch.text # ""

\* _pack_for_prompt: the page tags of the chunks with text.
PackForPrompt(chunks) ==
    LET kept == SelectSeq(chunks, HasText) IN
    [i \in 1..Len(kept) |-> [part |-> "excerpt", page |-> kept[i].page]]

\* _user_prompt: the excerpts, or the marker when there is none.
UserPrompt(packed) ==
    IF packed # << >> THEN packed ELSE << [part |-> "(no evidence)", page |-> 0] >>

\* _evidence_for_api: one item for each chunk with text.
EvidenceForApi(chunks) ==
    LET kept == SelectSeq(chunks, HasText) IN
    [i \in 1..Len(kept) |-> [page |-> kept[i].page, paragraph |-> kept[i].paragraph]]

\* verify_claim_against_pdf.  The scores of the chunks come from the
\* embedding model and are any values.
VerifyClaimAgainstPdf ==
    /\ fx.op = "pipeline" /\ ~fx.done
    /\ LET chunks == ExtractPdfChunks(fx.doc)
           n == IF chunks # << >> THEN Len(chunks) ELSE 1
           k == IF DefaultK < n THEN DefaultK ELSE n
       IN \E sims \in [1..n -> 0..1] :
          \E hits \in TopKOf(sims, k) :
             LET top == IF chunks # << >>
                        THEN [i \in 1..Len(hits) |-> chunks[hits[i].pos]]
                        ELSE << >>
                 v == AnthropicVerify(fx.http, fx.text)
             IN fx' = [fx EXCEPT !.done = TRUE,
                                 !.chunks = chunks,
                                 !.rows = n,
                                 !.k = k,
                                 !.prompt = UserPrompt(PackForPrompt(top)),
                                 !.raised = v.raised,
                                 !.verdict = v.verdict,
                                 !.evidence = IF v.raised THEN << >>
                                              ELSE EvidenceForApi(top)]
    /\ UNCHANGED << job, buffer, verif, blob, conc, pc, loc, task, doneq, events,
                    touched, appended, faults, xfails, nverify, calls, prev,
                    upload, rds >>

PipelineTexts ==
    {<< >>, << Mark("garbage") >>, << Mark("array") >>, << Mark("number") >>,
     << [t |-> "object", verdict |-> "supported", conf |-> "0.3", reason |-> "r"] >>,
     Fence \o << Mark("json"), Mark("nl"),
                 [t |-> "object", verdict |-> "maybe", conf |-> "1.5", reason |-> "r"],
                 Mark("nl") >> \o Fence}

PipelineInputs ==
    {[op |-> "pipeline", done |-> FALSE, doc |-> d, http |-> h, text |-> t,
      chunks |-> << >>, rows |-> 0, k |-> 0, prompt |-> << >>, raised |-> FALSE,
      verdict |-> "",
      evidence |-> << >>] :
        d \in Docs, h \in {"ok", "error"}, t \in PipelineTexts}

\* ------------------------------------------------------------------- chunking
MaxPageLines == 3    \* lines of the text of a page
MaxLineLen == 2      \* characters of a line, white space at its ends left out
MaxChars == 3        \* max_chars_per_chunk

\* The text of a page: the lengths of its lines once stripped, 0 for a line
\* that is blank.
PageTexts == UNION {[1..n -> 0..MaxLineLen] : n \in 0..MaxPageLines}

\* Line 35: the stripped non-empty lines, each with its place in the page.
RECURSIVE ParasFrom(_, _)
ParasFrom(text, i) ==
    IF i > Len(text) THEN << >>
    ELSE (IF text[i] > 0 THEN << [pos |-> i, n |-> text[i]] >> ELSE << >>)
         \o ParasFrom(text, i + 1)

\* Lines 41-50: the loop over paras from the k-th on, with the chunks closed
\* so far, the open buf and its size.
RECURSIVE GreedyLoop(_, _, _, _, _, _)
GreedyLoop(paras, k, chunks, buf, size, max_chars) ==
    IF k > Len(paras)
    THEN IF buf # << >> THEN Append(chunks, buf) ELSE chunks
    ELSE IF size + paras[k].n + 1 > max_chars /\ buf # << >>
    THEN GreedyLoop(paras, k + 1, Append(chunks, buf), << paras[k] >>,
                    paras[k].n, max_chars)
    ELSE GreedyLoop(paras, k + 1, chunks, Append(buf, paras[k]),
                    size + paras[k].n + 1, max_chars)

\* _greedy_para_split: the chunks of a page text, each the lines it joins.
GreedyParaSplit(text, max_chars) ==
    GreedyLoop(ParasFrom(text, 1), 1, << >>, << >>, 0, max_chars)

\* The documents chunked: bytes that do not parse, and documents of no page,
\* one page, or two pages.
LineDocs ==
    {[parsable |-> FALSE, pages |-> << >>], [parsable |-> TRUE, pages |-> << >>]}
    \cup {[parsable |-> TRUE, pages |-> << t >>] : t \in PageTexts}
    \cup {[parsable |-> TRUE, pages |-> << t, << >> >>] : t \in PageTexts}
    \cup {[parsable |-> TRUE, pages |-> << << 0 >>, t >>] : t \in PageTexts}
    \cup {[parsable |-> TRUE, pages |-> << t, t >>] : t \in PageTexts}

PlaceholderChunk == [page |-> 1, paragraph |-> 0, text |-> << >>]

\* Lines 63-70: the chunks of the pages from page pg on.
RECURSIVE PageChunksFrom(_, _, _)
PageChunksFrom(pages, pg, max_chars) ==
    IF pg > Len(pages) THEN << >>
    ELSE LET parts == GreedyParaSplit(pages[pg], max_chars) IN
         [j \in 1..Len(parts) |-> [page |-> pg, paragraph |-> j, text |-> parts[j]]]
         \o PageChunksFrom(pages, pg + 1, max_chars)

\* (mutant) no placeholder is made
ExtractPdfChunksNoPlaceholder(doc, max_chars) ==
    PageChunksFrom(PagesTexts(doc), 1, max_chars)

\* extract_pdf_chunks on the lines of the pages.
ExtractPdfChunksLines(doc, max_chars) ==
    IF PagesTexts(doc) = << >> THEN << PlaceholderChunk >>
    ELSE IF PageChunksFrom(PagesTexts(doc), 1, max_chars) = << >>
    THEN << PlaceholderChunk >>
    ELSE PageChunksFrom(PagesTexts(doc), 1, max_chars)

ChunkDocument ==
    /\ fx.op = "chunks" /\ ~fx.done
    /\ fx' = [fx EXCEPT !.done = TRUE,
                        !.out = ExtractPdfChunksLines(fx.doc, fx.max_chars)]
    /\ UNCHANGED << job, buffer, verif, blob, conc, pc, loc, task, doneq, events,
                    touched, appended, faults, xfails, nverify, calls, prev,
                    upload, rds >>

ChunkInputs ==
    {[op |-> "chunks", done |-> FALSE, doc |-> d, max_chars |-> m, out |-> << >>] :
        d \in LineDocs, m \in 1..MaxChars}

\* ---------------------------------------------------------------- config.cache
RdsFrame ==
    UNCHANGED << job, buffer, verif, blob, conc, pc, loc, task, doneq, events,
                 touched, appended, faults, xfails, nverify, calls, prev, fx, upload >>

\* get_redis up to its first await (lines 9-21).  With _client None the
\* handle is made by from_url and assigned at once, and the caller awaits
\* its ping; otherwise _client is returned as it is.
GetRedis(c) ==
    /\ rds.pc[c] = "idle"
    /\ IF rds.client = 0
       THEN /\ rds.made < MaxHandles
            /\ rds' = [rds EXCEPT !.client = rds.made + 1,
                                  !.made = rds.made + 1,
                                  !.pc[c] = "ping",
                                  !.got[c] = [NoHandle EXCEPT !.mine = rds.made + 1]]
       ELSE rds' = [rds EXCEPT !.pc[c] = "returned",
                               !.got[c] = [mine |-> 0, handle |-> rds.client,
                                           ready |-> rds.client \in rds.pinged]]
    /\ RdsFrame

\* Lines 20-21: the ping of the caller's handle returns, and get_redis
\* returns what _client is by then; or the ping raises, and so does
\* get_redis, leaving _client as it is.
PingReturns(c, ok) ==
    /\ rds.pc[c] = "ping"
    /\ IF ok
       THEN rds' = [rds EXCEPT !.pinged = @ \cup {rds.got[c].mine},
                               !.pc[c] = "returned",
                               !.got[c] = [mine |-> rds.got[c].mine,
                                           handle |-> rds.client,
                                           ready |-> rds.client \in
                                               (rds.pinged \cup {rds.got[c].mine})]]
       ELSE rds' = [rds EXCEPT !.pc[c] = "raised"]
    /\ RdsFrame

\* The caller makes another call later.
CallAgain(c) ==
    /\ rds.pc[c] \in {"returned", "raised"}
    /\ rds' = [rds EXCEPT !.pc[c] = "idle", !.got[c] = NoHandle]
    /\ RdsFrame

\* close_redis up to its await (lines 24-27): nothing to do when _client is
\* None.
CloseRedis ==
    /\ ~rds.closing
    /\ rds.client # 0
    /\ rds' = [rds EXCEPT !.closing = TRUE]
    /\ RdsFrame

\* Line 28: aclose has returned, _client = None.
CloseReturns ==
    /\ rds.closing
    /\ rds' = [rds EXCEPT !.closing = FALSE, !.client = 0, !.closes = 1]
    /\ RdsFrame

RdsNext ==
    \/ \E c \in Callers : GetRedis(c)
    \/ \E c \in Callers, ok \in BOOLEAN : PingReturns(c, ok)
    \/ \E c \in Callers : CallAgain(c)
    \/ CloseRedis
    \/ CloseReturns

\* The calls on the shared connection, in any interleaving of the
\* coroutines of one event loop.
RdsSpec == Init /\ [][RdsNext]_vars

\* ------------------------------------------------- the functions on their inputs
FnInit ==
    /\ InitFor({1})
    /\ \/ fx \in ExtractInputs
       \/ fx \in TopKInputs
       \/ fx \in VerifyInputs
       \/ fx \in PipelineInputs
       \/ fx \in ChunkInputs

FnNext == ExtractPage \/ TopK \/ Verify \/ VerifyClaimAgainstPdf \/ ChunkDocument

FnSpec == FnInit /\ [][FnNext]_vars

\* The same as ReliableSpec with the configured concurrency also 0 (and any
\* value below 1), which Semaphore(max(1, C)) turns into one permit.
PoolValues == ConcValues \cup {0}

PoolSpec == InitFor(PoolValues) /\ fx = NoFx /\ [][ReliableNext]_vars

\* ------------------------------------------------------------- properties
IdsOf(buf) == [k \in 1..Len(buf) |-> buf[k].id]
DoneCount(evs) == Cardinality({k \in 1..Len(evs) : evs[k].type = "done"})
NoDup(seq) == \A i, j \in 1..Len(seq) : i # j => seq[i] # seq[j]

\* The events of stream s emitted before live extraction began, and from
\* then on.
ReplayPart(s) ==
    IF loc[s].liveFrom = 0 THEN events[s]
    ELSE SubSeq(events[s], 1, loc[s].liveFrom - 1)
LivePart(s) ==
    IF loc[s].liveFrom = 0 THEN << >>
    ELSE SubSeq(events[s], loc[s].liveFrom, Len(events[s]))
SeqRange(seq) == {seq[k] : k \in 1..Len(seq)}

\* C1: a stream that has ended by itself holds exactly one done event, its
\* last event; a stream that has not ended holds none.
C1_ExactlyOneDoneLast ==
    \A s \in Streams :
        /\ pc[s] = "closed" =>
              /\ DoneCount(events[s]) = 1
              /\ events[s][Len(events[s])].type = "done"
        /\ pc[s] # "closed" => DoneCount(events[s]) = 0

\* C1 witness: live extraction aborted by an exception after it had emitted
\* a claim event, ended by done.
C1_Witness ==
    \E s \in Streams :
        /\ pc[s] = "closed" /\ loc[s].liveFrom > 0
        /\ loc[s].faulted \/ loc[s].xfailed
        /\ ClaimIdsOf(LivePart(s)) # << >>

\* C2: every stream call that has started eventually ends with its done
\* event (checked under LiveSpec, for 1..MaxPages pages and the permit counts
\* of ConcValues).
C2_EventuallyDone ==
    \A s \in Streams : (pc[s] \notin {"init", "closed"}) ~> (pc[s] = "closed")

\* C2 witness: a stream with more pages than permits has consumed every page
\* and ended.
C2_Witness ==
    \E s \in Streams :
        /\ pc[s] = "closed" /\ loc[s].pages > Permits(conc)
        /\ loc[s].fin = loc[s].pages

\* C3: a stream call that read status finished starts no extraction task, does
\* not enter make_live_stream and writes nothing to the Job record.
C3_FinishedNoExtraction ==
    \A s \in Streams :
        (loc[s].known /\ loc[s].status = "finished"
            /\ pc[s] \notin {"init", "get_status", "get_snap"}) =>
            /\ \A p \in 1..MaxPages : task[s][p] = "none"
            /\ loc[s].liveFrom = 0
            /\ "job" \notin touched[s]
            /\ job.status = "finished"

\* C3 witness: a stream of a finished job that replayed claims and ended.
C3_Witness ==
    \E s \in Streams :
        /\ pc[s] = "closed" /\ loc[s].known /\ loc[s].status = "finished"
        /\ ClaimIdsOf(events[s]) # << >>

\* The stream of a finished job: at most the snapshot progress event, then
\* claim events only, then done.
FinishedShape(evs) ==
    /\ Len(evs) >= 1
    /\ evs[Len(evs)].type = "done"
    /\ \A k \in 1..(Len(evs) - 1) :
          evs[k].type = "claim" \/ (k = 1 /\ evs[k].type = "progress")

\* C4: of two successive stream calls on a finished job, the second emits the
\* same events as the first (claim events compared by id): the ids of the
\* Buffer in Buffer order, then done; and the Buffer is after the second call
\* what it was when the first read it.
C4_IdempotentResume ==
    (pc[1] = "closed" /\ loc[1].known /\ loc[1].status = "finished" /\ prev.finished) =>
        /\ PlainEvents(events[1]) = prev.evs
        /\ FinishedShape(events[1])
        /\ ClaimIdsOf(events[1]) = IdsOf(prev.b0)
        /\ buffer = prev.b0
        /\ appended[1] = << >>

\* C4 witness: the second of two such calls has ended, each having replayed
\* the three claims of the document.
C4_Witness ==
    /\ pc[1] = "closed" /\ loc[1].known /\ loc[1].status = "finished"
    /\ prev.finished
    /\ Len(ClaimIdsOf(events[1])) = 3

ReplayOver(s) ==
    \/ pc[s] \in {"fetch_pdf", "parse", "spawn", "await_fut", "append", "emit_claim",
                   "progress", "final", "set_status"}
    \/ pc[s] = "closed" /\ loc[s].known

\* C5: once the replay of a known job's stream is over, the claim events
\* emitted before live extraction are one per entry of the Buffer as it stood
\* when the stream read it, in Buffer order, each id once.
C5_ReplayComplete ==
    \A s \in Streams :
        ReplayOver(s) =>
            /\ ClaimIdsOf(ReplayPart(s)) = IdsOf(loc[s].b0)
            /\ NoDup(ClaimIdsOf(ReplayPart(s)))

\* C5 witness: a resumed stream has replayed two buffered claims and gone on
\* to emit a live claim event.
C5_Witness ==
    \E s \in Streams :
        /\ Len(ClaimIdsOf(ReplayPart(s))) = 2
        /\ ClaimIdsOf(LivePart(s)) # << >>

\* C6: no id replayed by a stream is emitted by its live extraction or
\* appended to the Buffer by it.
C6_SkipCorrect ==
    \A s \in Streams :
        /\ SeqRange(ClaimIdsOf(ReplayPart(s))) \cap SeqRange(ClaimIdsOf(LivePart(s))) = {}
        /\ SeqRange(ClaimIdsOf(ReplayPart(s))) \cap SeqRange(appended[s]) = {}

\* C6 witness: a resumed stream replayed the claims of page 1, has awaited the
\* extraction result of page 1 again, and has emitted the claim of page 2.
C6_Witness ==
    \E s \in Streams :
        /\ {11, 12} \subseteq SeqRange(ClaimIdsOf(ReplayPart(s)))
        /\ 1 \in SeqRange(doneq[s])
        /\ 21 \in SeqRange(ClaimIdsOf(LivePart(s)))

C8_AppendedOnceConcurrent ==
    \A c \in ClaimIds : Cardinality({k \in 1..Len(buffer) : buffer[k].id = c}) <= 1

\* C9: a claim event emitted for a claim that has a persisted record carries
\* the record's verdict, confidence and reasoning, its evidence, and
\* sourceUploaded = true.
C9_OverlayCarried ==
    [][ \A s \in Streams :
          (Len(events'[s]) = Len(events[s]) + 1
              /\ events'[s][Len(events'[s])].type = "claim"
              /\ verif[events'[s][Len(events'[s])].claim.id] # NoRec) =>
             LET c == events'[s][Len(events'[s])].claim
                 r == verif[c.id] IN
             /\ c.verdict = r.verdict
             /\ c.confidence = r.confidence
             /\ c.reasoningMd = r.reasoningMd
             /\ c.evidence = r.evidence
             /\ c.sourceUploaded ]_vars

\* C9 witness: live extraction has emitted the claim event of a claim whose
\* persisted record says supported, carrying the record.
C9_Witness ==
    \E s \in Streams :
        \E k \in 1..Len(events[s]) :
            /\ events[s][k].type = "claim"
            /\ events[s][k].claim.sourceUploaded
            /\ loc[s].liveFrom > 0 /\ k >= loc[s].liveFrom
            /\ events[s][k].claim.verdict = "supported"

\* C10: a stream call that finds no Job record emits the error event and the
\* done event and nothing else, and changes no store and no expiry.
C10_UnknownJob ==
    [][ \A s \in Streams :
          (calls' = calls + 1 /\ pc'[s] = "closed" /\ ~loc'[s].known) =>
                /\ events'[s] = << ErrorEv, DoneEv(TRUE) >>
                /\ stores' = stores
                /\ touched'[s] = {} /\ appended'[s] = << >>
                /\ \A p \in 1..MaxPages : task'[s][p] = "none" ]_vars

\* C10 witness: the stream of an id with no Job record has ended while the
\* stores hold nothing.
C10_Witness ==
    \E s \in Streams :
        /\ pc[s] = "closed" /\ ~loc[s].known /\ job = NoJob
        /\ events[s] = << ErrorEv, DoneEv(TRUE) >>

\* The ids of the claim dicts _one_page builds for page p.
PageIds(p) == {OnePage(p)[k].id : k \in 1..Len(OnePage(p))}

\* C11: when the stream was cut off by a disconnect and an extraction call
\* that was in flight has since returned, the claims it returned are in the
\* Buffer.
C11_InFlightResultsBuffered ==
    \A s \in Streams :
        pc[s] = "disconnected" =>
            \A p \in 1..MaxPages :
                (task[s][p] = "ok" /\ p \notin SeqRange(doneq[s])) =>
                    PageIds(p) \subseteq BufferedIds(buffer)

\* C12: a live stream that has ended (no store call raised) has consumed every
\* page whose extraction call did not fail, and that page's claims are in the
\* Buffer.
C12_FailureSparesSiblings ==
    \A s \in Streams :
        (pc[s] = "closed" /\ loc[s].liveFrom > 0) =>
            \A p \in 1..loc[s].pages :
                task[s][p] # "err" =>
                    /\ p \in SeqRange(doneq[s])
                    /\ PageIds(p) \subseteq BufferedIds(buffer)

\* C13: a live stream in which a page's extraction call failed still counts
\* every page as processed and ends with the final snapshot and status
\* finished.
C13_FailureIsEmptyPage ==
    \A s \in Streams :
        (pc[s] = "closed" /\ loc[s].xfailed) =>
            /\ loc[s].fin = loc[s].pages
            /\ job.status = "finished"
            /\ job.phase = "extract" /\ job.progress_processed = job.progress_total

\* C14: whenever the persisted snapshot is overwritten by one of the same
\* phase, processed does not decrease and total stays the same.
C14_ProgressMonotone ==
    [][ (job.phase # "none" /\ job'.phase = job.phase) =>
            /\ job'.progress_processed >= job.progress_processed
            /\ job'.progress_total = job.progress_total ]_vars

\* C15: the persisted snapshot always has 0 <= processed <= total when
\* total > 0.
C15_ProcessedWithinTotal ==
    job.progress_total > 0 =>
        /\ 0 <= job.progress_processed
        /\ job.progress_processed <= job.progress_total

\* C15 witness: a resumed stream has persisted an extract snapshot with
\* processed = total, after the parse snapshots of the stream before it.
C15_Witness ==
    /\ calls >= 2 /\ prev.cutAt # ""
    /\ job.phase = "extract" /\ job.progress_total = MaxPages
    /\ job.progress_processed = job.progress_total
    /\ pc[1] = "await_fut" \/ pc[1] = "final"

\* The live events of stream s as a sequence of numbers: a claim event is its
\* id, an extract-progress event is minus its processed count; parse progress
\* and done are left out.
RECURSIVE TraceOf(_)
TraceOf(evs) ==
    IF evs = << >> THEN << >>
    ELSE LET e == Head(evs) IN
         (IF e.type = "claim" THEN << e.claim.id >>
          ELSE IF e.type = "progress" /\ e.phase = "extract" THEN << 0 - e.processed >>
          ELSE << >>) \o TraceOf(Tail(evs))

RECURSIVE Unskipped(_, _)
Unskipped(cur, skip) ==
    IF cur = << >> THEN << >>
    ELSE (IF Head(cur).id \in skip THEN << >> ELSE << Head(cur).id >>)
         \o Unskipped(Tail(cur), skip)

\* What the pages awaited so far must give, page after page in the order they
\* were awaited: the page's surviving claims, then its progress event.
RECURSIVE ExpectedTrace(_, _, _)
ExpectedTrace(q, k, skip) ==
    IF k > Len(q) THEN << >>
    ELSE Unskipped(OnePage(q[k]), skip) \o << 0 - k >> \o ExpectedTrace(q, k + 1, skip)

IsPrefix(a, b) == Len(a) <= Len(b) /\ SubSeq(b, 1, Len(a)) = a

\* C16: in a live stream every claim event follows the Buffer append of its
\* claim, and the stream's claim and extract-progress events are, page by
\* page in the order the pages were awaited, the page's surviving claims
\* followed by the page's progress event.
C16_PageOrdering ==
    \A s \in Streams :
        /\ IsPrefix(ClaimIdsOf(LivePart(s)), appended[s])
        /\ SeqRange(ClaimIdsOf(LivePart(s))) \subseteq BufferedIds(buffer)
        /\ IsPrefix(TraceOf(LivePart(s)), ExpectedTrace(doneq[s], 1, loc[s].skip))
        /\ pc[s] \in {"await_fut", "final", "set_status"} =>
              TraceOf(LivePart(s)) = ExpectedTrace(doneq[s], 1, loc[s].skip)

\* C16 witness: page 2 was awaited before page 1 and the stream has emitted
\* the events of both pages.
C16_Witness ==
    \E s \in Streams :
        /\ doneq[s] = << 2, 1 >>
        /\ TraceOf(LivePart(s)) = << 21, 0 - 1, 11, 12, 0 - 2 >>

\* C17: a stream has at most max(1, C) extraction calls in flight, and while
\* a task waits for a permit exactly max(1, C) calls are in flight, whether
\* the calls before returned or raised.
C17_PermitBound ==
    \A s \in Streams :
        LET m == IF conc >= 1 THEN conc ELSE 1 IN
        /\ Cardinality(InFlight(s)) <= m
        /\ (\E p \in 1..MaxPages : task[s][p] = "queued") =>
              Cardinality(InFlight(s)) = m

\* C17 witness: the configured concurrency is 0, the call of page 1 raised and
\* page 2 holds the one permit.
C17_Witness ==
    \E s \in Streams :
        conc = 0 /\ task[s][1] = "err" /\ task[s][2] = "inflight"

\* C18: over all streams of the job, at most max(1, C) extraction calls are in
\* flight.
C18_JobWidePermitBound ==
    Cardinality({sp \in Streams \X (1..MaxPages) : task[sp[1]][sp[2]] = "inflight"})
        <= (IF conc >= 1 THEN conc ELSE 1)

C20_NoReExtraction ==
    \A s \in Streams :
        (/\ loc[s].liveFrom > 0
         /\ loc[s].snap.phase = "extract"
         /\ loc[s].snap.processed = loc[s].pages
         /\ \A p \in 1..loc[s].pages : PageIds(p) \subseteq loc[s].skip) =>
            \A p \in 1..MaxPages : task[s][p] = "none"

\* C21: when a known job is not finished and its document is missing, empty
\* or without pages, the step that fetches the document ends the stream: the
\* events are the snapshot progress (if any), the replayed claims and done,
\* with no error event; no task is started and the Job record is unchanged.
C21_NoDocumentEndsCleanly ==
    [][ \A s \in Streams :
          (/\ pc[s] = "fetch_pdf" /\ pc'[s] \notin {"fetch_pdf", "disconnected"}
           /\ loc[s].status # "finished"
           /\ blob.kind # "pdf" \/ blob.pages = 0) =>
             /\ pc'[s] = "closed"
             /\ events'[s] = events[s] \o << DoneEv(TRUE) >>
             /\ FinishedShape(events'[s])
             /\ ClaimIdsOf(events'[s]) = IdsOf(loc[s].b0)
             /\ loc[s].snap.total > 0 => events'[s][1].type = "progress"
             /\ \A p \in 1..MaxPages : task'[s][p] = "none"
             /\ job' = job
             /\ "job" \notin touched'[s] ]_vars

\* C21 witness: the stream of an in-progress job whose document is gone has
\* emitted the snapshot, replayed a claim and ended.
C21_Witness ==
    \E s \in Streams :
        /\ pc[s] = "closed" /\ loc[s].known /\ loc[s].status = "streaming"
        /\ blob = NoBlob /\ loc[s].liveFrom = 0
        /\ Len(events[s]) >= 3
        /\ events[s][1].type = "progress" /\ events[s][2].type = "claim"

\* C25: every step leaves the Buffer as it was or extends it at its tail.
C25_BufferAppendOnly ==
    [][ IsPrefix(buffer, buffer') ]_vars

\* C25 witness: the Buffer holds the three claims, one of them has a
\* persisted record, and a stream has replayed it with the record merged in.
C25_Witness ==
    /\ Len(buffer) = 3
    /\ \E s \in Streams : \E k \in 1..Len(events[s]) :
          /\ events[s][k].type = "claim" /\ events[s][k].claim.sourceUploaded
          /\ loc[s].liveFrom = 0 \/ k < loc[s].liveFrom

\* The parse-progress events 0..n of n pages.
ParsePart(n) == [i \in 1..(n + 1) |-> Plain(ProgressEv("parse", i - 1, n))]

\* The events of the pages q[k], q[k+1], ..: each page's claim events, then
\* its extract-progress event with the count of pages done.
RECURSIVE PagesPart(_, _, _)
PagesPart(q, k, n) ==
    IF k > Len(q) THEN << >>
    ELSE [j \in 1..Len(OnePage(q[k])) |-> Plain(ClaimEv(LivePayload(OnePage(q[k])[j])))]
         \o << Plain(ProgressEv("extract", k, n)) >>
         \o PagesPart(q, k + 1, n)

\* C26: the stream of a fresh job whose extraction calls all succeeded is the
\* parse progress 0..N, then page by page in the order of completion the
\* page's claim events and the extract progress 1, 2, .., N, then done; the
\* job is finished.
C26_FreshStreamShape ==
    \A s \in Streams :
        (/\ pc[s] = "closed" /\ loc[s].liveFrom > 0
         /\ loc[s].snap = NoSnap /\ loc[s].b0 = << >>
         /\ ~loc[s].xfailed) =>
            /\ PlainEvents(events[s]) =
                  ParsePart(loc[s].pages)
                  \o PagesPart(doneq[s], 1, loc[s].pages)
                  \o << Plain(DoneEv(FALSE)) >>
            /\ Len(doneq[s]) = loc[s].pages
            /\ events[s][Len(events[s])] = DoneEv(FALSE)
            /\ job.status = "finished"

\* C26 witness: a fresh stream over two pages of which page 2 completed
\* first has ended.
C26_Witness ==
    \E s \in Streams :
        /\ pc[s] = "closed" /\ loc[s].snap = NoSnap /\ loc[s].b0 = << >>
        /\ doneq[s] = << 2, 1 >> /\ job.status = "finished"

ParseEventsOf(evs) == SelectSeq(evs, LAMBDA e : e.type = "progress" /\ e.phase = "parse")

\* C27: a stream in live extraction emits and persists parse progress iff the
\* snapshot it read does not have phase extract.
C27_ParseIffNotExtract ==
    /\ [](\A s \in Streams :
            loc[s].liveFrom > 0 =>
                /\ loc[s].snap.phase = "extract" =>
                      /\ ParseEventsOf(LivePart(s)) = << >>
                      /\ pc[s] # "parse"
                /\ (loc[s].snap.phase # "extract"
                      /\ pc[s] \in {"spawn", "await_fut", "append", "emit_claim",
                                    "progress", "final", "set_status"}) =>
                      PlainEvents(ParseEventsOf(LivePart(s))) = ParsePart(loc[s].pages))
    /\ [][ (job'.phase = "parse" /\ job' # job) =>
              \E s \in Streams :
                  /\ pc[s] = "parse"
                  /\ loc[s].snap.phase # "extract"
                  /\ Len(events'[s]) = Len(events[s]) + 1 ]_vars

\* C27 witness: a stream that read an extract snapshot has gone through live
\* extraction to its end.
C27_Witness ==
    \E s \in Streams :
        /\ loc[s].snap.phase = "extract" /\ loc[s].liveFrom > 0
        /\ pc[s] = "closed" /\ job.status = "finished" /\ job.phase = "extract"

ProgressEventsOf(evs) == SelectSeq(evs, LAMBDA e : e.type = "progress")

\* C28: the stream of a known job holds, before its replay, one progress
\* event with the persisted snapshot's phase, processed and total, as first
\* event, when the snapshot's total is positive, and no progress event
\* otherwise.
C28_SnapshotFirst ==
    \A s \in Streams :
        (loc[s].known /\ pc[s] \in {"read_buffer", "replay", "fetch_pdf"}) =>
            /\ loc[s].snap.phase = job.phase
            /\ loc[s].snap.processed = job.progress_processed
            /\ loc[s].snap.total = job.progress_total
            /\ IF job.phase # "none" /\ job.progress_total > 0
               THEN /\ ProgressEventsOf(events[s]) =
                          << ProgressEv(job.phase, job.progress_processed,
                                        job.progress_total) >>
                    /\ events[s][1].type = "progress"
               ELSE ProgressEventsOf(events[s]) = << >>

\* C28 witness: the stream of a finished job has emitted the final snapshot
\* and is replaying.
C28_Witness ==
    \E s \in Streams :
        /\ loc[s].status = "finished" /\ pc[s] = "replay"
        /\ events[s][1] = ProgressEv("extract", 2, 2)

\* C29: every record extract_claims_from_page returns, and every dict
\* _one_page makes of it, has a status Claim accepts.
C29_StatusNormalised ==
    (fx.op = "extract" /\ fx.done) =>
        /\ \A k \in 1..Len(fx.ready) : fx.ready[k].status \in {"cited", "uncited", "weakly_cited"}
        /\ \A k \in 1..Len(fx.dicts) : fx.dicts[k].status \in {"cited", "uncited", "weakly_cited"}

\* C30: every record returned for a page has an id, a record without one gets
\* p<page>_<k> for its position k among the accepted records, and the ids of
\* the page are pairwise distinct.
C30_IdsPresentAndDistinct ==
    (fx.op = "extract" /\ fx.done) =>
        LET acc == ParseNdjson(fx.lines) IN
        /\ Len(fx.ready) = Len(acc)
        /\ \A k \in 1..Len(fx.ready) :
              /\ fx.ready[k].id # 0
              /\ acc[k].id = 0 => fx.ready[k].id = 10 * fx.page + k
              /\ acc[k].id # 0 => fx.ready[k].id = acc[k].id
        /\ NoDup(IdsOf(fx.ready))

\* C22: for every answer text the verifier returns, without raising, a verdict
\* among the three and a confidence in [0,1]; a text that cannot be parsed
\* gives unsupported, 0.5 and the unable-to-parse reasoning.
C22_VerifierNeverRaises ==
    (fx.op = "verify" /\ fx.done /\ fx.http = "ok") =>
        /\ ~fx.out.raised
        /\ fx.out.verdict \in {"supported", "partially_supported", "unsupported"}
        /\ fx.out.confidence >= 0 /\ fx.out.confidence <= 100
        /\ ~JsonParses(Unfenced(fx.text)) =>
              /\ fx.out.verdict = "unsupported"
              /\ fx.out.confidence = 50
              /\ fx.out.reasoning = "Unable to parse verifier output."

\* C23: for a source that parses to no page or no chunk the pipeline works on
\* the placeholder chunk alone, gives the verifier the no-evidence marker, and
\* returns a verdict with an empty evidence list without raising.
C23_ZeroChunksStillVerdict ==
    (fx.op = "pipeline" /\ fx.done /\ fx.http = "ok"
        /\ (PagesTexts(fx.doc) = << >> \/ \A p \in 1..Len(fx.doc.pages) : fx.doc.pages[p] = 0)) =>
        /\ fx.chunks = << Placeholder >>
        /\ fx.prompt = << [part |-> "(no evidence)", page |-> 0] >>
        /\ ~fx.raised
        /\ fx.verdict \in {"supported", "partially_supported", "unsupported"}
        /\ fx.evidence = << >>

\* C24: over n >= 1 rows top_k returns k clamped to [1, n] pairs of distinct
\* positions, in non-increasing order of score, each score the dot product of
\* the row and the query, no row left out scoring higher than a returned one,
\* and rows of equal score in the order of their positions.
C24_TopKOrdered ==
    (fx.op = "top_k" /\ fx.done) =>
        LET n == Len(fx.index)
            out == fx.out
            want == IF fx.k < 1 THEN 1 ELSE IF fx.k > n THEN n ELSE fx.k
        IN /\ Len(out) = want
           /\ \A i, j \in 1..Len(out) : i # j => out[i].pos # out[j].pos
           /\ \A i, j \in 1..Len(out) : i < j => out[i].score >= out[j].score
           /\ \A i \in 1..Len(out) :
                 /\ out[i].pos \in 1..n
                 /\ out[i].score = Dot(fx.index[out[i].pos], fx.q)
           /\ \A r \in 1..n :
                 (\A i \in 1..Len(out) : out[i].pos # r) =>
                     \A i \in 1..Len(out) : Dot(fx.index[r], fx.q) <= out[i].score
           /\ \A i, j \in 1..Len(out) :
                 (i < j /\ out[i].score = out[j].score) => out[i].pos < out[j].pos

\* C33: the upload returns a job id only after the Job record (status
\* streaming, processed 0, total 0) was persisted and the bytes were stored;
\* when a store write fails it raises and returns no id; a returned id always
\* has its Job record.
C33_NoIdWithoutRecord ==
    /\ [](upload = "returned" => (job # NoJob /\ blob # NoBlob))
    /\ [][upload' # upload =>
            /\ upload' = "returned" =>
                  /\ job' = NewJob
                  /\ blob' \in Blobs
                  /\ faults' = faults
            /\ faults' # faults => upload' = "raised"]_vars

C33_Witness == upload = "returned" /\ job.status = "streaming" /\ calls > 0

\* The Buffer read of stream s raised: the Buffer held entries when it was
\* read and the stream got none.
BufferReadFailed(s) == loc[s].b0 # << >> /\ loc[s].buffered = << >>

EndsWithDone(s) ==
    /\ pc[s] = "closed"
    /\ events[s] # << >>
    /\ events[s][Len(events[s])].type = "done"

\* C34: a stream of a known job whose Buffer read raised goes on as with an
\* empty Buffer: no claim event is replayed (claim events come from live
\* extraction only), no error event is emitted, the skip set is empty, and
\* the stream ends with done.
C34_BufferReadFailureIsEmpty ==
    \A s \in Streams :
        /\ [](BufferReadFailed(s) =>
                /\ loc[s].skip = {}
                /\ \A k \in 1..Len(events[s]) :
                      /\ events[s][k].type # "error"
                      /\ events[s][k].type = "claim" =>
                            (loc[s].liveFrom > 0 /\ k >= loc[s].liveFrom)
                /\ pc[s] = "closed" => EndsWithDone(s))
        /\ (BufferReadFailed(s) ~> EndsWithDone(s))

C34_Witness ==
    \E s \in Streams :
        /\ BufferReadFailed(s)
        /\ EndsWithDone(s)
        /\ \E k \in 1..Len(events[s]) :
              events[s][k].type = "claim" /\ events[s][k].claim.id \in BufferedIds(loc[s].b0)

\* C36: every event of every stream has a type among the four and a payload
\* field; every done event carries the (empty) payload, on every path.
C36_EveryEventHasPayload ==
    \A s \in Streams : \A k \in 1..Len(events[s]) :
        /\ events[s][k].type \in {"claim", "progress", "error", "done"}
        /\ events[s][k].payload

C38_FinishedBufferComplete ==
    job.status = "finished" =>
        \A p \in 1..PagesOf(blob) : \A k \in 1..Len(OnePage(p)) :
            \E n \in 1..Len(buffer) : buffer[n].id = OnePage(p)[k].id

C38_Witness ==
    /\ job.status = "finished"
    /\ PagesOf(blob) = MaxPages
    /\ \E s \in Streams :
          /\ pc[s] = "closed"
          /\ appended[s] # << >>
          /\ loc[s].skip # {}

\* C39: a verify call leaves the Job record, the Buffer and the stored bytes
\* as they are and changes at most the Verification entry of its own claim;
\* a verify call that raises changes no entry.
C39_VerifyWritesOwnEntryOnly ==
    [][nverify' # nverify =>
          /\ job' = job /\ buffer' = buffer /\ blob' = blob
          /\ \E c \in VerifyIds : \A d \in ClaimIds \ {c} : verif'[d] = verif[d]
          /\ faults' # faults => verif' = verif]_vars

C39_Witness ==
    /\ nverify > 0
    /\ \E c \in VerifyIds : verif[c] # NoRec
    /\ buffer # << >>
    /\ job.status = "streaming"
    /\ blob # NoBlob

RECURSIVE IsSubseq(_, _)
IsSubseq(a, b) ==
    IF a = << >> THEN TRUE
    ELSE IF b = << >> THEN FALSE
    ELSE IF Head(a) = Head(b) THEN IsSubseq(Tail(a), Tail(b))
    ELSE IsSubseq(a, Tail(b))

\* C40: a store call that raises while a buffered entry is replayed leaves out
\* that entry's claim event only: the loop goes on with the next entry, the
\* entries replayed are those of the Buffer in order but for the ones left
\* out, and the skip set of live extraction holds every buffered id, so live
\* extraction emits none of them.
C40_ReplayFailureSkipsOneEntry ==
    /\ [](\A s \in Streams :
            LET ids == IdsOf(loc[s].buffered)
                replayed == ClaimIdsOf(ReplayPart(s))
            IN /\ IsSubseq(replayed, ids)
               /\ ReplayOver(s) => Len(replayed) + faults >= Len(ids)
               /\ (ReplayOver(s) /\ ~loc[s].faulted) => replayed = ids
               /\ loc[s].liveFrom > 0 =>
                     /\ loc[s].skip = SeqRange(ids)
                     /\ \A k \in 1..Len(LivePart(s)) :
                           LivePart(s)[k].type = "claim" =>
                               LivePart(s)[k].claim.id \notin SeqRange(ids))
    /\ [][\A s \in Streams :
            (pc[s] = "replay" /\ loc'[s].idx # loc[s].idx /\ faults' # faults) =>
                /\ events'[s] = events[s]
                /\ loc'[s].idx = loc[s].idx + 1
                /\ pc'[s] = IF loc[s].idx < Len(loc[s].buffered) THEN "replay"
                            ELSE "fetch_pdf"]_vars

C40_Witness ==
    \E s \in Streams :
        /\ pc[s] = "closed"
        /\ loc[s].liveFrom > 0
        /\ Len(loc[s].buffered) >= 2
        /\ Len(ClaimIdsOf(ReplayPart(s))) = Len(loc[s].buffered) - 1
        /\ EndsWithDone(s)

\* The characters of a chunk: its lines joined by one newline each.
RECURSIVE SumLen(_)
SumLen(lines) == IF lines = << >> THEN 0 ELSE Head(lines).n + SumLen(Tail(lines))
ChunkLen(lines) == SumLen(lines) + Len(lines) - 1

\* The lines of the chunks of page pg, in chunk order.
RECURSIVE LinesOfPage(_, _)
LinesOfPage(chunks, pg) ==
    IF chunks = << >> THEN << >>
    ELSE (IF Head(chunks).page = pg THEN Head(chunks).text ELSE << >>)
         \o LinesOfPage(Tail(chunks), pg)

\* C31: for every page the lines of its chunks, in chunk order, are the
\* non-empty lines of the page in document order; a line opens a new chunk
\* only when joining the current one would make it longer than maxChars; so
\* a chunk of two or more lines is never longer than maxChars.
C31_GreedyChunks ==
    (fx.op = "chunks" /\ fx.done /\ fx.doc.parsable) =>
        /\ \A pg \in 1..Len(fx.doc.pages) :
              LinesOfPage(fx.out, pg) = ParasFrom(fx.doc.pages[pg], 1)
        /\ \A i \in 1..Len(fx.out) :
              /\ Len(fx.out[i].text) >= 2 => ChunkLen(fx.out[i].text) <= fx.max_chars
              /\ (i < Len(fx.out) /\ fx.out[i + 1].page = fx.out[i].page) =>
                    ChunkLen(fx.out[i].text) + 1 + fx.out[i + 1].text[1].n > fx.max_chars

\* C32: chunks() never returns an empty list: a document of no page or of
\* blank pages only gives the placeholder chunk alone (page 1, empty text),
\* and no other chunk has an empty text; in the pipeline the index has at
\* least one row and the k given to top_k is within [1, rows].
C32_NeverEmpty ==
    /\ (fx.op = "chunks" /\ fx.done) =>
          /\ fx.out # << >>
          /\ (\A pg \in 1..Len(PagesTexts(fx.doc)) :
                  ParasFrom(fx.doc.pages[pg], 1) = << >>) => fx.out = << PlaceholderChunk >>
          /\ \A i \in 1..Len(fx.out) :
                fx.out[i].text = << >> => (fx.out = << PlaceholderChunk >>)
    /\ (fx.op = "pipeline" /\ fx.done) =>
          /\ fx.rows >= 1
          /\ fx.rows = Len(fx.chunks)
          /\ fx.k >= 1 /\ fx.k <= fx.rows

C32_Witness ==
    /\ fx.op = "chunks" /\ fx.done
    /\ Len(fx.doc.pages) = 2
    /\ fx.doc.parsable
    /\ fx.out = << PlaceholderChunk >>

\* C35: the shared connection is initialised once: until close_redis is
\* called one handle at most is made and every caller gets that handle, and
\* no caller gets a handle whose ping has not completed successfully.
C35_SingleFlightInit ==
    /\ rds.closes = 0 /\ ~rds.closing =>
          /\ rds.made <= 1
          /\ \A c \in Callers : rds.pc[c] = "returned" => rds.got[c].handle = 1
    /\ \A c \in Callers :
          rds.pc[c] = "returned" => (rds.got[c].handle # 0 /\ rds.got[c].ready)

====
